---- MODULE Spec2Model ----
(***************************************************************************)
(* Model of the record-processing engine of the penguin data analyzer:     *)
(* app/services/data_ops.py (class DataOperations).                        *)
(*                                                                         *)
(* A record (one csv.DictReader row) is a TLA+ record whose fields are the *)
(* column names, with text values, plus the field "id" that stands for the *)
(* identity of the Python dict object (id(p)).  A dataset is a sequence of *)
(* records.  Python floats are modelled by tagged values: finite numbers   *)
(* (integers), positive infinity and NaN, with the IEEE comparison rules   *)
(* Python applies to them.                                                 *)
(***************************************************************************)
EXTENDS Integers, Sequences, FiniteSets, TLC

VARIABLES data, op, args, result, err, same, files, frames

vars == <<data, op, args, result, err, same, files, frames>>

----------------------------------------------------------------------------
(* Bounds of the model *)

MaxLen == 4

----------------------------------------------------------------------------
(* Column classification *)

NUMERIC_COLUMNS ==
  {"Flipper Length (mm)", "Culmen Length (mm)", "Culmen Depth (mm)", "Body Mass (g)",
   "flipper_length_mm", "culmen_length_mm", "culmen_depth_mm", "body_mass_g"}

STRING_COLUMNS == {"Species", "Island", "Sex", "species", "island", "sex"}

----------------------------------------------------------------------------
(* Values: Python float and str as compared by <, >, <=, >=, == *)

Fin(n) == [k |-> "fin", v |-> n, s |-> ""]
Inf == [k |-> "inf", v |-> 0, s |-> ""]
NaN == [k |-> "nan", v |-> 0, s |-> ""]
Str(t) == [k |-> "str", v |-> 0, s |-> t]

\* Code-point order of the text cells that occur in the model.
StrRank(t) ==
  IF t = "" THEN 0
  ELSE IF t = "Adelie" THEN 1
  ELSE IF t = "Chinstrap" THEN 2
  ELSE IF t = "Gentoo" THEN 3
  ELSE 4

Lt(a, b) ==
  IF a.k = "str" THEN StrRank(a.s) < StrRank(b.s)
  ELSE IF a.k = "nan" \/ b.k = "nan" THEN FALSE
  ELSE IF a.k = "inf" THEN FALSE
  ELSE IF b.k = "inf" THEN TRUE
  ELSE a.v < b.v

Eq(a, b) ==
  IF a.k = "nan" \/ b.k = "nan" THEN FALSE ELSE a = b

Gt(a, b) == Lt(b, a)
Le(a, b) == Lt(a, b) \/ Eq(a, b)
Ge(a, b) == Le(b, a)

\* float(text): the number a cell text parses to, or a ValueError (ok = FALSE).
ParseFloat(t) ==
  IF t = "3200" THEN [ok |-> TRUE, f |-> Fin(3200)]
  ELSE IF t = "3750" THEN [ok |-> TRUE, f |-> Fin(3750)]
  ELSE IF t = "3750.0" THEN [ok |-> TRUE, f |-> Fin(3750)]
  ELSE IF t = "5000" THEN [ok |-> TRUE, f |-> Fin(5000)]
  ELSE IF t = "nan" THEN [ok |-> TRUE, f |-> NaN]
  ELSE [ok |-> FALSE, f |-> NaN]

----------------------------------------------------------------------------
(* Records and datasets *)

Columns(row) == DOMAIN row \ {"id"}

\* row.get(key, '')
GetOrEmpty(row, key) == IF key \in Columns(row) THEN row[key] ELSE ""

Ids(rows) == {rows[i].id : i \in 1..Len(rows)}

\* The datasets of at most n records over a set of rows; the record at
\* position i is the object with identity i.
WithId(row, i) == [c \in DOMAIN row \cup {"id"} |-> IF c = "id" THEN i ELSE row[c]]

DatasetsOver(pool, n) ==
  UNION {{[i \in 1..m |-> WithId(f[i], i)] : f \in [1..m -> pool]} : m \in 0..n}

NoArgs ==
  [key |-> "", reverse |-> FALSE, value |-> "", k |-> 0, threshold |-> Fin(0),
   percent |-> 0, method |-> ""]

----------------------------------------------------------------------------
(* Sorting algorithms *)

_get_comparable_value(row, key) ==
  LET value == GetOrEmpty(row, key) IN
  IF key \in NUMERIC_COLUMNS
  THEN IF ParseFloat(value).ok THEN ParseFloat(value).f ELSE Inf
  ELSE Str(value)

\* An exchange that loses the record at position i.
Swap_overwrite(s, i, j) == [s EXCEPT ![i] = s[j]]

\* result[i], result[j] = result[j], result[i]
Swap(s, i, j) == [s EXCEPT ![i] = s[j], ![j] = s[i]]

\* Inner loop of bubble_sort: j (1-based) runs up to last; st = [res, swapped].
RECURSIVE BubblePass(_, _, _, _, _)
BubblePass(st, j, last, key, reverse) ==
  IF j > last THEN st
  ELSE LET val1 == _get_comparable_value(st.res[j], key)
           val2 == _get_comparable_value(st.res[j + 1], key)
           doSwap == IF reverse THEN Lt(val1, val2) ELSE Gt(val1, val2)
       IN BubblePass(IF doSwap THEN [res |-> Swap(st.res, j, j + 1), swapped |-> TRUE]
                               ELSE st,
                     j + 1, last, key, reverse)

\* Outer loop of bubble_sort: i is the 0-based pass number.
RECURSIVE BubbleOuter(_, _, _, _)
BubbleOuter(res, i, key, reverse) ==
  LET n == Len(res) IN
  IF i >= n THEN res
  ELSE LET st == BubblePass([res |-> res, swapped |-> FALSE], 1, n - i - 1, key, reverse)
       IN IF ~st.swapped THEN st.res
          ELSE BubbleOuter(st.res, i + 1, key, reverse)

bubble_sort(rows, key, reverse) == BubbleOuter(rows, 0, key, reverse)

_merge_left_first(l_val, r_val, reverse) ==
  IF reverse THEN Ge(l_val, r_val) ELSE Le(l_val, r_val)

RECURSIVE _merge(_, _, _, _)
_merge(left, right, key, reverse) ==
  IF left = <<>> \/ right = <<>> THEN left \o right
  ELSE LET l_val == _get_comparable_value(left[1], key)
           r_val == _get_comparable_value(right[1], key)
       IN IF _merge_left_first(l_val, r_val, reverse)
          THEN <<left[1]>> \o _merge(Tail(left), right, key, reverse)
          ELSE <<right[1]>> \o _merge(left, Tail(right), key, reverse)

RECURSIVE merge_sort(_, _, _)
merge_sort(rows, key, reverse) ==
  IF Len(rows) <= 1 THEN rows
  ELSE LET mid == Len(rows) \div 2
           left == merge_sort(SubSeq(rows, 1, mid), key, reverse)
           right == merge_sort(SubSeq(rows, mid + 1, Len(rows)), key, reverse)
       IN _merge(left, right, key, reverse)

RECURSIVE quick_sort(_, _, _)
quick_sort(rows, key, reverse) ==
  IF Len(rows) <= 1 THEN rows
  ELSE LET pivot == rows[(Len(rows) \div 2) + 1]
           pivot_val == _get_comparable_value(pivot, key)
           IsLeft(item) == Lt(_get_comparable_value(item, key), pivot_val)
           IsRight(item) == ~IsLeft(item) /\ Gt(_get_comparable_value(item, key), pivot_val)
           IsMiddle(item) == ~IsLeft(item) /\ ~IsRight(item)
           left == SelectSeq(rows, IsLeft)
           middle == SelectSeq(rows, IsMiddle)
           right == SelectSeq(rows, IsRight)
       IN IF reverse
          THEN quick_sort(right, key, reverse) \o middle \o quick_sort(left, key, reverse)
          ELSE quick_sort(left, key, reverse) \o middle \o quick_sort(right, key, reverse)

_insertion_shift(comp_val, key_val, reverse) ==
  IF reverse THEN Lt(comp_val, key_val) ELSE Gt(comp_val, key_val)

\* The while loop of insertion_sort: j is the 1-based index of result[j].
RECURSIVE InsertionShift(_, _, _, _, _)
InsertionShift(res, j, key_val, key, reverse) ==
  IF j < 1 THEN [res |-> res, j |-> j]
  ELSE IF _insertion_shift(_get_comparable_value(res[j], key), key_val, reverse)
       THEN InsertionShift([res EXCEPT ![j + 1] = res[j]], j - 1, key_val, key, reverse)
       ELSE [res |-> res, j |-> j]

RECURSIVE InsertionOuter(_, _, _, _)
InsertionOuter(res, i, key, reverse) ==
  IF i > Len(res) THEN res
  ELSE LET key_item == res[i]
           key_val == _get_comparable_value(key_item, key)
           st == InsertionShift(res, i - 1, key_val, key, reverse)
       IN InsertionOuter([st.res EXCEPT ![st.j + 1] = key_item], i + 1, key, reverse)

insertion_sort(rows, key, reverse) == InsertionOuter(rows, 2, key, reverse)

\* A scan that also moves to a record whose key equals the extremum so far.
_selection_better_nonstrict(curr_val, extreme_val, reverse) ==
  IF reverse THEN Ge(curr_val, extreme_val) ELSE Le(curr_val, extreme_val)

_selection_better(curr_val, extreme_val, reverse) ==
  IF reverse THEN Gt(curr_val, extreme_val) ELSE Lt(curr_val, extreme_val)

\* Inner loop of selection_sort: the index of the extremum of res[j..].
RECURSIVE SelectionScan(_, _, _, _, _, _)
SelectionScan(res, j, extreme_idx, extreme_val, key, reverse) ==
  IF j > Len(res) THEN extreme_idx
  ELSE LET curr_val == _get_comparable_value(res[j], key) IN
       IF _selection_better(curr_val, extreme_val, reverse)
       THEN SelectionScan(res, j + 1, j, curr_val, key, reverse)
       ELSE SelectionScan(res, j + 1, extreme_idx, extreme_val, key, reverse)

RECURSIVE SelectionOuter(_, _, _, _)
SelectionOuter(res, i, key, reverse) ==
  IF i > Len(res) THEN res
  ELSE LET extreme_idx == SelectionScan(res, i + 1, i,
                                        _get_comparable_value(res[i], key), key, reverse)
       IN SelectionOuter(Swap(res, i, extreme_idx), i + 1, key, reverse)

selection_sort(rows, key, reverse) == SelectionOuter(rows, 1, key, reverse)

----------------------------------------------------------------------------
(* The sort command: one action per algorithm *)

SortKeys == {"body_mass_g", "species", "island"}

SortRows ==
  {[species |-> "Adelie", body_mass_g |-> "3750"],
   [species |-> "Gentoo", body_mass_g |-> "3200"],
   [species |-> "Adelie", body_mass_g |-> "3750.0"],
   [species |-> "", body_mass_g |-> "NA"],
   [species |-> "Chinstrap", body_mass_g |-> "nan"]}

SortOps == {"bubble_sort", "insertion_sort", "selection_sort", "merge_sort", "quick_sort"}

\* A copy that hands back the list it was asked to copy.
_copy_is_input == TRUE

\* data.copy() is the input list object: never, the copy is a new list.
_copy_is_data == FALSE

\* A call that returned res; alias says that res is the input list object.
\* The code writes to the result list only, so the input list has the
\* content of the result after the call exactly when the two are one list.
Returned(name, a, res, alias) ==
  /\ op = "idle"
  /\ op' = name
  /\ args' = a
  /\ result' = res
  /\ err' = ""
  /\ same' = alias
  /\ data' = IF alias THEN res ELSE data
  /\ UNCHANGED <<files, frames>>

BubbleSort ==
  \E key \in SortKeys, reverse \in BOOLEAN :
    Returned("bubble_sort", [NoArgs EXCEPT !.key = key, !.reverse = reverse],
             bubble_sort(data, key, reverse), _copy_is_data)

InsertionSort ==
  \E key \in SortKeys, reverse \in BOOLEAN :
    Returned("insertion_sort", [NoArgs EXCEPT !.key = key, !.reverse = reverse],
             insertion_sort(data, key, reverse), _copy_is_data)

SelectionSort ==
  \E key \in SortKeys, reverse \in BOOLEAN :
    Returned("selection_sort", [NoArgs EXCEPT !.key = key, !.reverse = reverse],
             selection_sort(data, key, reverse), _copy_is_data)

MergeSort ==
  \E key \in SortKeys, reverse \in BOOLEAN :
    Returned("merge_sort", [NoArgs EXCEPT !.key = key, !.reverse = reverse],
             merge_sort(data, key, reverse), Len(data) <= 1)

QuickSort ==
  \E key \in SortKeys, reverse \in BOOLEAN :
    Returned("quick_sort", [NoArgs EXCEPT !.key = key, !.reverse = reverse],
             quick_sort(data, key, reverse), Len(data) <= 1)

\* The command loop is back at its prompt, the loaded dataset unchanged.
Prompt ==
  /\ op # "idle"
  /\ op' = "idle"
  /\ args' = NoArgs
  /\ result' = <<>>
  /\ err' = ""
  /\ same' = FALSE
  /\ UNCHANGED <<data, files, frames>>

\* Nothing called yet: the data directory is empty and no sort is running.
Idle ==
  /\ op = "idle"
  /\ args = NoArgs
  /\ result = <<>>
  /\ err = ""
  /\ same = FALSE
  /\ files = <<>>
  /\ frames = <<>>

InitSort == data \in DatasetsOver(SortRows, MaxLen) /\ Idle

NextSort ==
  \/ BubbleSort
  \/ InsertionSort
  \/ SelectionSort
  \/ MergeSort
  \/ QuickSort
  \/ Prompt

SpecSort == InitSort /\ [][NextSort]_vars

----------------------------------------------------------------------------
(* Properties of the sorting algorithms *)

KeyOf(row) == _get_comparable_value(row, args.key)

\* The position in rows of the record with identity id.
PosOf(rows, id) == CHOOSE i \in 1..Len(rows) : rows[i].id = id

Occurrences(rows, row) == Cardinality({i \in 1..Len(rows) : rows[i] = row})

\* Records with equal key are in rows in the order they have in data.
StableOn(rows) ==
  \A i \in 1..Len(data) : \A j \in (i + 1)..Len(data) :
    Eq(KeyOf(data[i]), KeyOf(data[j]))
      => PosOf(rows, data[i].id) < PosOf(rows, data[j].id)

\* C1: the output of each of the five sort algorithms is ordered by the
\* Comparable Key, non-decreasing when ascending and non-increasing when
\* descending: no record is followed, anywhere later in the output, by a
\* record whose key is strictly smaller (ascending) resp. greater (descending).
C1_SortedOutput ==
  op \in SortOps =>
    \A i \in 1..Len(result) : \A j \in (i + 1)..Len(result) :
      IF args.reverse THEN ~Gt(KeyOf(result[j]), KeyOf(result[i]))
                      ELSE ~Lt(KeyOf(result[j]), KeyOf(result[i]))

\* C2: the output of each of the five sort algorithms is a permutation of the
\* input: same length, and every record occurs in the output exactly as often
\* as in the input.
C2_Permutation ==
  op \in SortOps =>
    /\ Len(result) = Len(data)
    /\ \A i \in 1..Len(result) : Occurrences(data, result[i]) = Occurrences(result, result[i])
    /\ \A i \in 1..Len(data) : Occurrences(result, data[i]) = Occurrences(data, data[i])

C2_Witness ==
  /\ op \in SortOps
  /\ Len(data) >= 3
  /\ result # data
  /\ \E i \in 1..Len(result) : result[i] = data[Len(data)] /\ i < Len(data)

\* C3: bubble, insertion and merge sort are stable in both directions: two
\* records with equal Comparable Key are in the output in their input order.
C3_StableBubbleInsertionMerge ==
  op \in {"bubble_sort", "insertion_sort", "merge_sort"} => StableOn(result)

\* C4 (as claimed): selection sort is stable: two records with equal
\* Comparable Key are in the output in their input order.
C4_SelectionStable ==
  op = "selection_sort" => StableOn(result)

\* C4 (amended): selection sort keeps the input order among the records whose
\* key equals the key of the first output record (the extremum picked by the
\* first pass); other records with equal keys may change their relative order.
C4_SelectionStableOnFirstKey ==
  (op = "selection_sort" /\ result # <<>>) =>
    \A i \in 1..Len(data) : \A j \in (i + 1)..Len(data) :
      (Eq(KeyOf(data[i]), KeyOf(result[1])) /\ Eq(KeyOf(data[j]), KeyOf(result[1])))
        => PosOf(result, data[i].id) < PosOf(result, data[j].id)

C4_Witness ==
  /\ op = "selection_sort"
  /\ Len(result) >= 3
  /\ result[1].id # 1
  /\ \E i \in 2..Len(result) : Eq(KeyOf(result[i]), KeyOf(result[1]))
  /\ ~StableOn(result)

\* C5: the five sort algorithms conform: on the same dataset, key column and
\* direction they return the same records and, position by position, the same
\* Comparable Key.
KeysOf(rows) == [i \in 1..Len(rows) |-> _get_comparable_value(rows[i], args.key)]

C5_Conformance ==
  op \in SortOps =>
    /\ Ids(result) = Ids(data)
    /\ KeysOf(result) = KeysOf(bubble_sort(data, args.key, args.reverse))
    /\ KeysOf(result) = KeysOf(insertion_sort(data, args.key, args.reverse))
    /\ KeysOf(result) = KeysOf(selection_sort(data, args.key, args.reverse))
    /\ KeysOf(result) = KeysOf(merge_sort(data, args.key, args.reverse))
    /\ KeysOf(result) = KeysOf(quick_sort(data, args.key, args.reverse))

----------------------------------------------------------------------------
(* Combinatorial search: itertools.combinations and split_penguins *)

MaxSearchLen == 5

SplitCeiling == 10
MinSplitLen == 4

\* The outcome of a call: the exception kind raised ("" if none) and the
\* value returned.
Ok(res) == [err |-> "", result |-> res]
Raise(kind) == [err |-> kind, result |-> <<>>]

\* A call that returned or raised out; alias says that the list the call
\* built its result in is the input list object.
CompletedOn(name, a, out, alias) ==
  /\ op = "idle"
  /\ op' = name
  /\ args' = a
  /\ result' = out.result
  /\ err' = out.err
  /\ same' = (alias /\ out.err = "")
  /\ data' = IF alias /\ out.err = "" THEN out.result ELSE data
  /\ UNCHANGED <<files, frames>>

Completed(name, a, out) == CompletedOn(name, a, out, FALSE)

\* float addition
FAdd(a, b) ==
  IF a.k = "nan" \/ b.k = "nan" THEN NaN
  ELSE IF a.k = "inf" \/ b.k = "inf" THEN Inf
  ELSE Fin(a.v + b.v)

\* itertools.combinations(iterable, r): the r-length subsequences of
\* iterable, in lexicographic order of their index tuples.
RECURSIVE combinations(_, _)
combinations(iterable, r) ==
  IF r = 0 THEN <<<<>>>>
  ELSE IF Len(iterable) < r THEN <<>>
  ELSE LET withHead == combinations(Tail(iterable), r - 1)
       IN [i \in 1..Len(withHead) |-> <<iterable[1]>> \o withHead[i]]
          \o combinations(Tail(iterable), r)

get_mass(penguin) ==
  LET key == IF "body_mass_g" \in Columns(penguin) THEN "body_mass_g" ELSE "Body Mass (g)" IN
  IF key \notin Columns(penguin) THEN Fin(0)
  ELSE IF ParseFloat(penguin[key]).ok THEN ParseFloat(penguin[key]).f
  ELSE Fin(0)

\* sum(get_mass(p) for p in group)
RECURSIVE MassSum(_)
MassSum(group) ==
  IF group = <<>> THEN Fin(0)
  ELSE FAdd(MassSum(SubSeq(group, 1, Len(group) - 1)), get_mass(group[Len(group)]))

\* A complement test that compares records by value.
_in_group_1_by_value(p, group_1) ==
  \E i \in 1..Len(group_1) : \A c \in Columns(p) : group_1[i][c] = p[c]

\* id(p) in g1_ids
_in_group_1(p, group_1) == p.id \in Ids(group_1)

\* A pick range that stops one size early.
_last_pick_short(n) == n - 4

\* range(1, n - 2): the largest number of further Group 1 members
_last_pick(n) == n - 3

\* The loop body for one chosen_others: the pair if it qualifies.
SplitCandidate(rows, chosen_others, threshold) ==
  LET group_1 == <<rows[1]>> \o chosen_others
      InGroup2(p) == ~_in_group_1(p, group_1)
      group_2 == SelectSeq(rows, InGroup2)
      mass_1 == MassSum(group_1)
      mass_2 == MassSum(group_2)
  IN IF Le(mass_1, threshold) /\ Le(mass_2, threshold)
     THEN <<<<group_1, group_2>>>>
     ELSE <<>>

RECURSIVE SplitCombos(_, _, _, _)
SplitCombos(rows, combos, i, threshold) ==
  IF i > Len(combos) THEN <<>>
  ELSE SplitCandidate(rows, combos[i], threshold) \o SplitCombos(rows, combos, i + 1, threshold)

RECURSIVE SplitPicks(_, _, _)
SplitPicks(rows, num_pick, threshold) ==
  IF num_pick > _last_pick(Len(rows)) THEN <<>>
  ELSE SplitCombos(rows, combinations(Tail(rows), num_pick), 1, threshold)
       \o SplitPicks(rows, num_pick + 1, threshold)

\* A size check that lets datasets of MinSplitLen - 1 records through.
_too_few_by_one(n) == n < MinSplitLen - 1

\* len(data) < 4
_too_few(n) == n < MinSplitLen

split_penguins(rows, threshold) ==
  IF rows = <<>> THEN Raise("FileNotLoadedException")
  ELSE IF Len(rows) > SplitCeiling THEN Raise("PenguinDataException")
  ELSE IF _too_few(Len(rows)) THEN Raise("PenguinDataException")
  ELSE Ok(SplitPicks(rows, 1, threshold))

SplitRows ==
  {[species |-> "Adelie", body_mass_g |-> "3200"],
   [species |-> "Adelie", body_mass_g |-> "3750"],
   [species |-> "Adelie", body_mass_g |-> "NA"],
   [species |-> "Adelie", body_mass_g |-> "nan"]}

\* Rows of a raw file, with the column names before preprocessing.
RawRow(species, mass) == ("Species" :> species) @@ ("Body Mass (g)" :> mass)

RawSplitRows == {RawRow("Adelie", "3200"), RawRow("Gentoo", "5000"), RawRow("Adelie", "NA")}

Thresholds == {Fin(0), Fin(7000), Fin(10950), Fin(20000), NaN}

\* A dataset above the size ceiling of the combinatorial procedures.
TooLargeDataset ==
  [i \in 1..(SplitCeiling + 1) |-> WithId([species |-> "Adelie", body_mass_g |-> "3200"], i)]

SplitPenguins ==
  \E threshold \in Thresholds :
    Completed("split_penguins", [NoArgs EXCEPT !.threshold = threshold],
              split_penguins(data, threshold))

InitSplit ==
  /\ data \in DatasetsOver(SplitRows, MaxSearchLen)
              \cup DatasetsOver(RawSplitRows, MaxSearchLen)
              \cup {TooLargeDataset}
  /\ Idle

NextSplit ==
  \/ SplitPenguins
  \/ Prompt

SpecSplit == InitSplit /\ [][NextSplit]_vars

----------------------------------------------------------------------------
(* Properties of split_penguins *)

IdSeq(rows) == [i \in 1..Len(rows) |-> rows[i].id]

\* The body-mass sum of the dataset records with identity in S, a mass that
\* does not parse or is missing counted as 0.
RECURSIVE MassOfIds(_)
MassOfIds(S) ==
  IF S = {} THEN Fin(0)
  ELSE LET x == CHOOSE y \in S : TRUE
           row == data[PosOf(data, x)]
       IN FAdd(get_mass(row), MassOfIds(S \ {x}))

SameValues(r1, r2) == Columns(r1) = Columns(r2) /\ \A c \in Columns(r1) : r1[c] = r2[c]

\* C6: every returned pair is a disjoint cover of the dataset by record
\* identity (each dataset record is in exactly one group, once), the first
\* dataset record is in Group A, each group has at least 2 records, and the
\* mass sum of each group is <= threshold.
C6_DisjointCover ==
  (op = "split_penguins" /\ err = "") =>
    \A i \in 1..Len(result) :
      LET A == result[i][1]
          B == result[i][2]
      IN /\ \A j \in 1..Len(data) : Occurrences(A, data[j]) + Occurrences(B, data[j]) = 1
         /\ Len(A) + Len(B) = Len(data)
         /\ A[1] = data[1]
         /\ Len(A) >= 2
         /\ Len(B) >= 2
         /\ Le(MassOfIds(Ids(A)), args.threshold)
         /\ Le(MassOfIds(Ids(B)), args.threshold)

C6_Witness ==
  /\ op = "split_penguins"
  /\ err = ""
  /\ Len(result) >= 2
  /\ \E i \in 1..Len(data) : \E j \in (i + 1)..Len(data) : SameValues(data[i], data[j])
  /\ \E i \in 1..Len(data) : get_mass(data[i]) = Fin(0)
  /\ \E i \in 1..Len(data) : get_mass(data[i]) # Fin(0)

\* a comes before b in the order of itertools.combinations: shorter first,
\* lexicographic by index among tuples of the same length.
PickBefore(a, b) ==
  \/ Len(a) < Len(b)
  \/ /\ Len(a) = Len(b)
     /\ \E m \in 1..Len(a) : a[m] < b[m] /\ \A q \in 1..(m - 1) : a[q] = b[q]

QualifyingSplit(S) ==
  LET T == Ids(data) \ S IN
  /\ Cardinality(S) >= 2
  /\ Cardinality(T) >= 2
  /\ Le(MassOfIds(S), args.threshold)
  /\ Le(MassOfIds(T), args.threshold)

\* C7: for a dataset of 4 to 10 records every unordered split into two groups
\* of at least 2 records whose mass sums are both <= threshold is returned
\* exactly once, never also mirrored, and the pairs come in the order of the
\* index-subset generation (by Group A size, lexicographic within a size).
C7_CompleteOnceInOrder ==
  (op = "split_penguins" /\ Len(data) >= MinSplitLen /\ Len(data) <= SplitCeiling) =>
    /\ err = ""
    /\ \A S \in SUBSET Ids(data) :
         QualifyingSplit(S) =>
           Cardinality({i \in 1..Len(result) :
                          {Ids(result[i][1]), Ids(result[i][2])} = {S, Ids(data) \ S}}) = 1
    /\ \A i \in 1..Len(result) : \A j \in (i + 1)..Len(result) :
         PickBefore(IdSeq(result[i][1]), IdSeq(result[j][1]))

C7_Witness ==
  /\ op = "split_penguins"
  /\ err = ""
  /\ \E i \in 1..Len(result) : Len(result[i][1]) = 2
  /\ \E i \in 1..Len(result) : Len(result[i][1]) = 3
  /\ \E S \in SUBSET Ids(data) :
       Cardinality(S) >= 2 /\ Cardinality(Ids(data) \ S) >= 2 /\ ~QualifyingSplit(S)

----------------------------------------------------------------------------
(* Combinatorial search: generate_research_groups *)

GroupCeiling == 10
MinGroupSize == 3

\* Python None, the value of row.get(key) for a missing key.
None == "<None>"

Truthy(x) == x # None /\ x # ""

\* row.get(key)
Get(row, key) == IF key \in Columns(row) THEN row[key] ELSE None

\* a or b
OrElse(a, b) == IF Truthy(a) THEN a ELSE b

SpeciesIn(rows, column) ==
  {Get(rows[i], column) : i \in {j \in 1..Len(rows) : Truthy(Get(rows[j], column))}}

\* A coverage test that wants the group's species to be exactly the
\* available ones.
_covers_exactly(available_species, group_species) == available_species = group_species

\* available_species.issubset(group_species)
_covers(available_species, group_species) == available_species \subseteq group_species

\* The loop over the combinations: the groups that cover available_species.
RECURSIVE ValidGroups(_, _, _)
ValidGroups(combos, i, available_species) ==
  IF i > Len(combos) THEN <<>>
  ELSE LET group == combos[i]
           group_species ==
             {OrElse(Get(group[m], "species"), Get(group[m], "Species")) : m \in 1..Len(group)}
       IN (IF _covers(available_species, group_species) THEN <<group>> ELSE <<>>)
          \o ValidGroups(combos, i + 1, available_species)

\* A size check that lets groups of MinGroupSize - 1 through.
_k_too_small_by_one(k) == k < MinGroupSize - 1

\* k < 3
_k_too_small(k) == k < MinGroupSize

generate_research_groups(rows, k) ==
  IF rows = <<>> THEN Raise("FileNotLoadedException")
  ELSE IF Len(rows) > GroupCeiling THEN Raise("PenguinDataException")
  ELSE IF _k_too_small(k) THEN Raise("PenguinDataException")
  ELSE IF k > Len(rows) THEN Raise("PenguinDataException")
  ELSE LET lower == SpeciesIn(rows, "species")
           available_species == IF lower = {} THEN SpeciesIn(rows, "Species") ELSE lower
       IN IF available_species = {} THEN Raise("PenguinDataException")
          ELSE Ok(ValidGroups(combinations(rows, k), 1, available_species))

GroupRows ==
  {[species |-> "Adelie", body_mass_g |-> "3750"],
   [species |-> "Gentoo", body_mass_g |-> "3750"],
   [species |-> "Chinstrap", body_mass_g |-> "3750"],
   [species |-> "", body_mass_g |-> "3750"]}

RawGroupRows == {RawRow("Adelie", "3200"), RawRow("Gentoo", "3200"), RawRow("", "3200")}

GroupSizes == 0..(MaxSearchLen + 1)

GenerateResearchGroups ==
  \E k \in GroupSizes :
    Completed("generate_research_groups", [NoArgs EXCEPT !.k = k],
              generate_research_groups(data, k))

InitGroups ==
  /\ data \in DatasetsOver(GroupRows, MaxSearchLen)
              \cup DatasetsOver(RawGroupRows, MaxSearchLen)
              \cup {TooLargeDataset}
  /\ Idle

NextGroups ==
  \/ GenerateResearchGroups
  \/ Prompt

SpecGroups == InitGroups /\ [][NextGroups]_vars

----------------------------------------------------------------------------
(* Properties of generate_research_groups *)

\* The species cell of a record: column species, or Species in a raw file.
SpeciesCell(row) ==
  IF "species" \in Columns(row) THEN row["species"]
  ELSE IF "Species" \in Columns(row) THEN row["Species"]
  ELSE ""

SpeciesPresent == {SpeciesCell(data[i]) : i \in 1..Len(data)} \ {""}

Covering(S) == SpeciesPresent \subseteq {SpeciesCell(data[PosOf(data, x)]) : x \in S}

\* C8: research_groups returns exactly the size-k combinations of dataset
\* records, chosen by index, whose species values include every distinct
\* species of the dataset: each group has size k, has no record twice and
\* covers all species; no qualifying combination is omitted; the groups are
\* in lexicographic order of their index tuples.
C8_ExactlyCoveringCombinations ==
  (op = "generate_research_groups" /\ err = "") =>
    /\ \A i \in 1..Len(result) :
         /\ Len(result[i]) = args.k
         /\ \A m \in 1..Len(result[i]) : result[i][m] = data[result[i][m].id]
         /\ \A m \in 1..(Len(result[i]) - 1) : result[i][m].id < result[i][m + 1].id
         /\ Covering(Ids(result[i]))
    /\ \A S \in SUBSET Ids(data) :
         (Cardinality(S) = args.k /\ Covering(S))
           => \E i \in 1..Len(result) : Ids(result[i]) = S
    /\ \A i \in 1..Len(result) : \A j \in (i + 1)..Len(result) :
         PickBefore(IdSeq(result[i]), IdSeq(result[j]))

C8_Witness ==
  /\ op = "generate_research_groups"
  /\ err = ""
  /\ Len(result) >= 2
  /\ Cardinality(SpeciesPresent) >= 2
  /\ \E i \in 1..Len(result) : \E m \in 1..Len(result[i]) : SpeciesCell(result[i][m]) = ""
  /\ \E S \in SUBSET Ids(data) : Cardinality(S) = args.k /\ ~Covering(S)

----------------------------------------------------------------------------
(* Filtering *)

\* A threshold test that also keeps the rows equal to the threshold.
_filter_keep_ge(cell_val, numeric_value) == Ge(cell_val, numeric_value)

\* float(row[attribute]) > numeric_value
_filter_keep(cell_val, numeric_value) == Gt(cell_val, numeric_value)

\* A fallback that hands the input rows back.
_filter_value_error_input(rows, filtered) == rows

\* except ValueError: pass -- the rows collected so far are returned
_filter_value_error(rows, filtered) == filtered

\* for row in data: the rows above numeric_value; a cell that does not parse
\* or a missing key is skipped.
RECURSIVE FilterNumeric(_, _, _, _)
FilterNumeric(rows, i, attribute, numeric_value) ==
  IF i > Len(rows) THEN <<>>
  ELSE LET row == rows[i]
           keep == /\ attribute \in Columns(row)
                   /\ ParseFloat(row[attribute]).ok
                   /\ _filter_keep(ParseFloat(row[attribute]).f, numeric_value)
       IN (IF keep THEN <<row>> ELSE <<>>) \o FilterNumeric(rows, i + 1, attribute, numeric_value)

\* str.lower() on the text cells that occur in the model.
Lower(t) ==
  IF t = "Adelie" THEN "adelie"
  ELSE IF t = "Gentoo" THEN "gentoo"
  ELSE IF t = "Chinstrap" THEN "chinstrap"
  ELSE t

\* A text match that ignores case.
_filter_match_nocase(cell, value) == Lower(cell) = Lower(value)

\* row.get(attribute) == value
_filter_match(cell, value) == cell = value

\* for row in data: the rows whose cell is the text value.
RECURSIVE FilterText(_, _, _, _)
FilterText(rows, i, attribute, value) ==
  IF i > Len(rows) THEN <<>>
  ELSE (IF _filter_match(Get(rows[i], attribute), value) THEN <<rows[i]>> ELSE <<>>)
       \o FilterText(rows, i + 1, attribute, value)

filter_data(rows, attribute, value) ==
  IF rows = <<>> THEN Raise("FileNotLoadedException")
  ELSE IF attribute \notin Columns(rows[1]) THEN Raise("InvalidColumnException")
  ELSE IF attribute \in NUMERIC_COLUMNS
       THEN IF ParseFloat(value).ok
            THEN Ok(FilterNumeric(rows, 1, attribute, ParseFloat(value).f))
            ELSE Ok(_filter_value_error(rows, <<>>))
       ELSE Ok(FilterText(rows, 1, attribute, value))

FilterRows ==
  SortRows \cup {[species |-> "Gentoo", body_mass_g |-> "5000"]}

\* Rows of a file that also has a column outside both column sets.
TaggedRow(species, mass, tag) ==
  ("species" :> species) @@ ("body_mass_g" :> mass) @@ ("Individual ID" :> tag)

TaggedRows ==
  {TaggedRow("Adelie", "3750", "N1A1"),
   TaggedRow("Gentoo", "NA", "N1A2"),
   TaggedRow("Adelie", "5000", "N1A1")}

FilterAttributes == {"body_mass_g", "species", "island", "flipper_length_mm", "Individual ID"}

FilterValues == {"3200", "3750", "nan", "abc", "Adelie", "adelie", "N1A1", ""}

FilterData ==
  \E attribute \in FilterAttributes, value \in FilterValues :
    Completed("filter_data", [NoArgs EXCEPT !.key = attribute, !.value = value],
              filter_data(data, attribute, value))

InitFilter ==
  /\ data \in DatasetsOver(FilterRows, MaxLen) \cup DatasetsOver(TaggedRows, MaxLen)
  /\ Idle

NextFilter ==
  \/ FilterData
  \/ Prompt

SpecFilter == InitFilter /\ [][NextFilter]_vars

----------------------------------------------------------------------------
(* Properties of filter_data *)

NumericFilterCall ==
  /\ op = "filter_data"
  /\ data # <<>>
  /\ args.key \in Columns(data[1])
  /\ args.key \in NUMERIC_COLUMNS

\* The cell of row in the filtered column parses to a number above v.
ParsesAbove(row, v) ==
  /\ ParseFloat(row[args.key]).ok
  /\ Gt(ParseFloat(row[args.key]).f, v)

\* C9: filter on a NUMERIC attribute with a value that parses as a number v
\* returns exactly the rows whose cell parses as a number strictly greater
\* than v, in their original relative order; rows whose cell does not parse or
\* equals v are not returned.
C9_NumericFilter ==
  (NumericFilterCall /\ ParseFloat(args.value).ok) =>
    LET v == ParseFloat(args.value).f IN
    /\ err = ""
    /\ Ids(result) = {data[i].id : i \in {j \in 1..Len(data) : ParsesAbove(data[j], v)}}
    /\ \A m \in 1..Len(result) : result[m] = data[result[m].id]
    /\ \A m \in 1..(Len(result) - 1) : result[m].id < result[m + 1].id

C9_Witness ==
  /\ NumericFilterCall
  /\ ParseFloat(args.value).ok
  /\ Len(result) >= 2
  /\ \E i \in 1..Len(data) : ParseFloat(data[i][args.key]) = ParseFloat(args.value)
  /\ \E i \in 1..Len(data) : ~ParseFloat(data[i][args.key]).ok

TextFilterCall ==
  /\ op = "filter_data"
  /\ data # <<>>
  /\ args.key \in Columns(data[1])
  /\ args.key \notin NUMERIC_COLUMNS

\* C11: filter on an attribute that is not in the NUMERIC set (a categorical
\* or an unknown column of the dataset) returns exactly the rows whose raw
\* cell text equals the given value, case-sensitively, in their original
\* relative order.
C11_TextFilter ==
  TextFilterCall =>
    /\ err = ""
    /\ Ids(result) = {data[i].id : i \in {j \in 1..Len(data) : data[j][args.key] = args.value}}
    /\ \A m \in 1..Len(result) : result[m] = data[result[m].id]
    /\ \A m \in 1..(Len(result) - 1) : result[m].id < result[m + 1].id

C11_Witness ==
  /\ TextFilterCall
  /\ args.value = "adelie"
  /\ result = <<>>
  /\ \E i \in 1..Len(data) : data[i][args.key] = "Adelie"

C11_WitnessUnknownColumn ==
  /\ TextFilterCall
  /\ args.key \notin STRING_COLUMNS
  /\ Len(result) >= 2
  /\ Len(result) < Len(data)

----------------------------------------------------------------------------
(* Descriptive statistics and uniqueness counting *)

\* min(values): the first value that no later value is < than.
RECURSIVE PyMin(_)
PyMin(values) ==
  IF Len(values) = 1 THEN values[1]
  ELSE LET m == PyMin(SubSeq(values, 1, Len(values) - 1))
           x == values[Len(values)]
       IN IF Lt(x, m) THEN x ELSE m

\* max(values): the first value that no later value is > than.
RECURSIVE PyMax(_)
PyMax(values) ==
  IF Len(values) = 1 THEN values[1]
  ELSE LET m == PyMax(SubSeq(values, 1, Len(values) - 1))
           x == values[Len(values)]
       IN IF Gt(x, m) THEN x ELSE m

\* sum(values)
RECURSIVE FSum(_)
FSum(values) ==
  IF values = <<>> THEN Fin(0)
  ELSE FAdd(FSum(SubSeq(values, 1, Len(values) - 1)), values[Len(values)])

\* total / count, kept as a fraction: the values of the model are whole
\* numbers and their mean need not be one.
FDiv(total, count) ==
  IF total.k = "fin" THEN [k |-> "fin", num |-> total.v, den |-> count]
  ELSE [k |-> total.k, num |-> 0, den |-> 1]

\* The cells of a column that float() accepts, in row order.
RECURSIVE ParsedValues(_, _, _)
ParsedValues(rows, i, attribute) ==
  IF i > Len(rows) THEN <<>>
  ELSE (IF attribute \in Columns(rows[i]) /\ ParseFloat(rows[i][attribute]).ok
        THEN <<ParseFloat(rows[i][attribute]).f>> ELSE <<>>)
       \o ParsedValues(rows, i + 1, attribute)

\* Checks that ask for a numeric attribute before they ask for the column.
_describe_validate_numeric_first(rows, attribute) ==
  IF rows = <<>> THEN "FileNotLoadedException"
  ELSE IF attribute \notin NUMERIC_COLUMNS THEN "NonNumericAttributeException"
  ELSE IF attribute \notin Columns(rows[1]) THEN "InvalidColumnException"
  ELSE ""

\* The three checks at the head of describe_attribute, in their order.
_describe_validate(rows, attribute) ==
  IF rows = <<>> THEN "FileNotLoadedException"
  ELSE IF attribute \notin Columns(rows[1]) THEN "InvalidColumnException"
  ELSE IF attribute \notin NUMERIC_COLUMNS THEN "NonNumericAttributeException"
  ELSE ""

describe_attribute(rows, attribute) ==
  IF _describe_validate(rows, attribute) # "" THEN Raise(_describe_validate(rows, attribute))
  ELSE LET values == ParsedValues(rows, 1, attribute) IN
       IF values = <<>> THEN Raise("PenguinDataException")
       ELSE Ok(<<PyMin(values), PyMax(values), FDiv(FSum(values), Len(values))>>)

\* A test that counts the empty cells as well.
_counted_all(val) == TRUE

\* if val:
_counted(val) == val # ""

\* The loop of unique_values: counts maps each non-empty cell to its count.
RECURSIVE UniqueLoop(_, _, _, _)
UniqueLoop(rows, i, attribute, counts) ==
  IF i > Len(rows) THEN counts
  ELSE LET val == GetOrEmpty(rows[i], attribute) IN
       UniqueLoop(rows, i + 1, attribute,
                  IF ~_counted(val) THEN counts
                  ELSE IF val \in DOMAIN counts THEN [counts EXCEPT ![val] = counts[val] + 1]
                  ELSE counts @@ (val :> 1))

unique_values(rows, attribute) ==
  IF rows = <<>> THEN Raise("FileNotLoadedException")
  ELSE IF attribute \notin Columns(rows[1]) THEN Raise("InvalidColumnException")
  ELSE Ok(UniqueLoop(rows, 1, attribute, <<>>))

DescribeAttribute ==
  \E attribute \in FilterAttributes :
    Completed("describe_attribute", [NoArgs EXCEPT !.key = attribute],
              describe_attribute(data, attribute))

UniqueValues ==
  \E attribute \in FilterAttributes :
    Completed("unique_values", [NoArgs EXCEPT !.key = attribute],
              unique_values(data, attribute))

InitStats == InitFilter

NextStats ==
  \/ DescribeAttribute
  \/ UniqueValues
  \/ FilterData
  \/ Prompt

SpecStats == InitStats /\ [][NextStats]_vars

----------------------------------------------------------------------------
(* Properties of describe_attribute and of the validation order *)

\* The numbers the cells of the described column parse to.
ParsedSet == {ParseFloat(data[i][args.key]).f :
                i \in {j \in 1..Len(data) : ParseFloat(data[j][args.key]).ok}}

ParsedCount == Cardinality({j \in 1..Len(data) : ParseFloat(data[j][args.key]).ok})

\* x <= total / count and total / count <= x for a mean kept as a fraction.
LeMean(x, mean) == x.k = "fin" /\ mean.k = "fin" /\ x.v * mean.den <= mean.num
MeanLe(mean, x) == x.k = "fin" /\ mean.k = "fin" /\ mean.num <= x.v * mean.den

\* C12: describe on a NUMERIC attribute returns (min, max, mean) over exactly
\* the cells that parse as numbers: min is <= every parsed value, max is >=
\* every parsed value, mean is their sum divided by their count, and
\* min <= mean <= max.
C12_DescribeMinMeanMax ==
  (op = "describe_attribute" /\ err = "") =>
    /\ result[1] \in ParsedSet
    /\ result[2] \in ParsedSet
    /\ \A x \in ParsedSet : Le(result[1], x) /\ Ge(result[2], x)
    /\ result[3].den = ParsedCount
    /\ LeMean(result[1], result[3])
    /\ MeanLe(result[3], result[2])

\* C13: describe fails with FileNotLoaded on an empty dataset, else with
\* InvalidColumn when the attribute is not a key of the first record, else
\* with NonNumericAttribute when the attribute is not NUMERIC, else with the
\* generic data-exception when no cell parses; filter and unique_counts make
\* the first two checks in the same order and raise nothing else.
C13_ValidationOrder ==
  /\ op = "describe_attribute" =>
       err = (IF data = <<>> THEN "FileNotLoadedException"
              ELSE IF args.key \notin Columns(data[1]) THEN "InvalidColumnException"
              ELSE IF args.key \notin NUMERIC_COLUMNS THEN "NonNumericAttributeException"
              ELSE IF ParsedCount = 0 THEN "PenguinDataException"
              ELSE "")
  /\ op \in {"filter_data", "unique_values"} =>
       err = (IF data = <<>> THEN "FileNotLoadedException"
              ELSE IF args.key \notin Columns(data[1]) THEN "InvalidColumnException"
              ELSE "")

C13_Witness ==
  /\ op = "describe_attribute"
  /\ data # <<>>
  /\ args.key \notin Columns(data[1])
  /\ args.key \notin NUMERIC_COLUMNS
  /\ err = "InvalidColumnException"

----------------------------------------------------------------------------
(* Failures of research_groups and partitions *)

\* C14: research_groups fails, returning no group, when the dataset is
\* empty, has more than 10 records, k < 3, k exceeds the dataset size, or no
\* record has a non-empty species value; on every other input it returns a
\* (possibly empty) sequence of groups.
C14_ResearchGroupsFailures ==
  op = "generate_research_groups" =>
    /\ err = (IF data = <<>> THEN "FileNotLoadedException"
              ELSE IF \/ Len(data) > 10
                      \/ args.k < 3
                      \/ args.k > Len(data)
                      \/ SpeciesPresent = {}
              THEN "PenguinDataException"
              ELSE "")
    /\ err # "" => result = <<>>
    /\ err = "" => \A i \in 1..Len(result) : Len(result[i]) = args.k

C14_Witness ==
  /\ op = "generate_research_groups"
  /\ Len(data) = 3
  /\ args.k = 2
  /\ SpeciesPresent # {}
  /\ err = "PenguinDataException"
  /\ result = <<>>

C14_WitnessNoSpecies ==
  /\ op = "generate_research_groups"
  /\ Len(data) \in 3..10
  /\ args.k \in 3..Len(data)
  /\ SpeciesPresent = {}
  /\ err = "PenguinDataException"

\* C15: partitions fails, returning no pair, when the dataset is empty, has
\* more than 10 records or has fewer than 4 records; for every dataset of 4
\* to 10 records and any threshold it returns a (possibly empty) sequence of
\* pairs.
C15_PartitionsFailures ==
  op = "split_penguins" =>
    /\ err = (IF data = <<>> THEN "FileNotLoadedException"
              ELSE IF Len(data) > 10 \/ Len(data) < 4 THEN "PenguinDataException"
              ELSE "")
    /\ err # "" => result = <<>>
    /\ err = "" => \A i \in 1..Len(result) : Len(result[i]) = 2

C15_Witness ==
  /\ op = "split_penguins"
  /\ Len(data) = 3
  /\ err = "PenguinDataException"
  /\ result = <<>>

C15_WitnessEmptyResult ==
  /\ op = "split_penguins"
  /\ Len(data) \in 4..10
  /\ err = ""
  /\ result = <<>>

----------------------------------------------------------------------------
(* Sorting again, and the place of unparsable cells *)

\* sorting_algorithms[name](rows, key, reverse)
SortWith(name, rows, key, reverse) ==
  CASE name = "bubble_sort" -> bubble_sort(rows, key, reverse)
    [] name = "insertion_sort" -> insertion_sort(rows, key, reverse)
    [] name = "selection_sort" -> selection_sort(rows, key, reverse)
    [] name = "merge_sort" -> merge_sort(rows, key, reverse)
    [] name = "quick_sort" -> quick_sort(rows, key, reverse)

\* rows has no later record that belongs strictly before an earlier one.
OrderedBy(rows) ==
  \A i \in 1..Len(rows) : \A j \in (i + 1)..Len(rows) :
    IF args.reverse THEN ~Gt(KeyOf(rows[j]), KeyOf(rows[i]))
                    ELSE ~Lt(KeyOf(rows[j]), KeyOf(rows[i]))

\* C16: each of the five algorithms is idempotent: a dataset already ordered
\* by the key in the requested direction comes back as the same records at
\* the same positions, and sorting the output of a sort again with the same
\* algorithm, key and direction changes nothing.
C16_Idempotent ==
  op \in SortOps =>
    /\ OrderedBy(data) => result = data
    /\ SortWith(op, result, args.key, args.reverse) = result

\* The cell of row under the sort key is accepted by float().
Parsable(row) == ParseFloat(GetOrEmpty(row, args.key)).ok

\* The cell of row under the sort key is the text of a number.
IsNumber(row) == Parsable(row) /\ ParseFloat(GetOrEmpty(row, args.key)).f.k = "fin"

\* C17: coercion maps an unparsable or missing cell of a NUMERIC column to
\* positive infinity and the cell of any other column to its text (a missing
\* key to the empty string), so that an ascending sort by a numeric column
\* puts every record with an unparsable cell after every record with a
\* parsable cell, and a descending sort puts it before.  The order is asked
\* only between an unparsable cell and the text of a number.
C17_UnparsableLast ==
  op \in SortOps =>
    /\ \A i \in 1..Len(data) :
         KeyOf(data[i]) =
           IF args.key \notin NUMERIC_COLUMNS THEN Str(GetOrEmpty(data[i], args.key))
           ELSE IF Parsable(data[i]) THEN ParseFloat(data[i][args.key]).f
           ELSE Inf
    /\ args.key \in NUMERIC_COLUMNS =>
         \A i \in 1..Len(result) : \A j \in (i + 1)..Len(result) :
           IF args.reverse THEN ~(IsNumber(result[i]) /\ ~Parsable(result[j]))
                           ELSE ~(~Parsable(result[i]) /\ IsNumber(result[j]))

----------------------------------------------------------------------------
(* Augmentation *)

MaxAugLen == 3

\* int(x / 100): the quotient without its fraction, towards zero.
IntOfHundredth(x) == IF x >= 0 THEN x \div 100 ELSE -((-x) \div 100)

\* [float(r[col]) for r in data if r.get(col)], when every such cell parses.
RECURSIVE FloatsOf(_, _, _)
FloatsOf(rows, i, col) ==
  IF i > Len(rows) THEN <<>>
  ELSE (IF Truthy(Get(rows[i], col)) THEN <<ParseFloat(rows[i][col]).f>> ELSE <<>>)
       \o FloatsOf(rows, i + 1, col)

\* float(r[col]) raises ValueError for some non-empty cell of the column.
FloatRaises(rows, col) ==
  \E i \in 1..Len(rows) : Truthy(Get(rows[i], col)) /\ ~ParseFloat(rows[i][col]).ok

\* The points of [a, b] that a draw is taken from.
UniformGrid == {3200, 3475, 3750, 5000}

\* round(random.uniform(a, b), 1): a + (b - a) * random(), so NaN when an
\* end is NaN.
Uniform(a, b) ==
  IF a.k = "nan" \/ b.k = "nan" THEN {NaN}
  ELSE {Fin(v) : v \in {u \in UniformGrid : a.v <= u /\ u <= b.v}}

\* The values a created row can have in column col.
CreatedValues(rows, col) ==
  IF col \in NUMERIC_COLUMNS
  THEN LET vals == FloatsOf(rows, 1, col) IN
       IF vals = <<>> THEN {Fin(0)} ELSE Uniform(PyMin(vals), PyMax(vals))
  ELSE IF col \in STRING_COLUMNS
  THEN IF SpeciesIn(rows, col) = {} THEN {""} ELSE SpeciesIn(rows, col)
  ELSE {""}

\* The rows that the loop over columns can build.
RECURSIVE CreatedRows(_, _)
CreatedRows(rows, columns) ==
  IF columns = {} THEN {<<>>}
  ELSE LET col == CHOOSE c \in columns : TRUE IN
       {(col :> v) @@ r : v \in CreatedValues(rows, col),
                          r \in CreatedRows(rows, columns \ {col})}

\* An append of the chosen record itself.
_choice_uncopied(row, id) == row

\* random.choice(data).copy(): a new object with the cells of row.
_choice_copy(row, id) == [row EXCEPT !.id = id]

\* The outcomes of augment_data, one for each way the random draws can fall.
augment_data(rows, percent, method) ==
  IF rows = <<>> THEN {Raise("FileNotLoadedException")}
  ELSE LET num_to_add == IntOfHundredth(Len(rows) * percent)
           added == 1..num_to_add
           n == Len(rows)
       IN IF method = "duplicate"
          THEN {Ok(rows \o [i \in added |-> _choice_copy(rows[pick[i]], n + i)]) :
                  pick \in [added -> 1..n]}
          ELSE IF method = "create"
          THEN IF added # {} /\ \E col \in Columns(rows[1]) \cap NUMERIC_COLUMNS :
                                  FloatRaises(rows, col)
               THEN {Raise("ValueError")}
               ELSE {Ok(rows \o [i \in added |-> WithId(new_row[i], n + i)]) :
                       new_row \in [added -> CreatedRows(rows, Columns(rows[1]))]}
          ELSE {Ok(rows)}

AugRows ==
  {[species |-> "Adelie", body_mass_g |-> "3200"],
   [species |-> "Gentoo", body_mass_g |-> "3750"],
   [species |-> "", body_mass_g |-> "NA"],
   [species |-> "Chinstrap", body_mass_g |-> ""],
   [species |-> "Adelie", body_mass_g |-> "nan"]}

Percents == {-50, 0, 50, 75}

Methods == {"duplicate", "create", "shuffle"}

AugmentData ==
  \E percent \in Percents, method \in Methods :
    \E out \in augment_data(data, percent, method) :
      CompletedOn("augment_data", [NoArgs EXCEPT !.percent = percent, !.method = method],
                  out, _copy_is_data)

InitAugment ==
  /\ data \in DatasetsOver(AugRows, MaxAugLen) \cup DatasetsOver(TaggedRows, MaxAugLen)
  /\ Idle

NextAugment ==
  \/ AugmentData
  \/ Prompt

SpecAugment == InitAugment /\ [][NextAugment]_vars

----------------------------------------------------------------------------
(* Properties of augment *)

\* The rows of the result after the records of the dataset.
Appended == {i \in 1..Len(result) : i > Len(data)}

\* C18: augment on a nonempty dataset with percent >= 0 and method
\* 'duplicate' or 'create' returns the original records in their order
\* followed by exactly floor(len(dataset) * percent / 100) appended rows; on
\* an empty dataset it fails with FileNotLoaded.
C18_AugmentLength ==
  op = "augment_data" =>
    /\ data = <<>> => err = "FileNotLoadedException"
    /\ (data # <<>> /\ args.percent >= 0 /\ args.method \in {"duplicate", "create"}) =>
         /\ err = ""
         /\ Len(result) = Len(data) + ((Len(data) * args.percent) \div 100)
         /\ SubSeq(result, 1, Len(data)) = data

\* The numbers that the non-empty cells of column col parse to.
ParsableIn(col) ==
  {ParseFloat(data[i][col]).f : i \in {j \in 1..Len(data) : ParseFloat(GetOrEmpty(data[j], col)).ok}}

\* The non-empty cells of column col.
NonEmptyIn(col) == {GetOrEmpty(data[i], col) : i \in 1..Len(data)} \ {""}

\* C19: augment with method 'create' on any nonempty dataset builds each
\* appended row over the columns of the first record: a NUMERIC column gets
\* a value between the minimum and the maximum of the parsable values of the
\* column, or 0 when no cell parses; a CATEGORICAL column gets one of the
\* non-empty values of the column, or the empty string when there is none;
\* any other column gets the empty string.
C19_CreateInRange ==
  (op = "augment_data" /\ args.method = "create" /\ data # <<>>) =>
    /\ err = ""
    /\ \A i \in Appended :
         /\ Columns(result[i]) = Columns(data[1])
         /\ \A col \in Columns(result[i]) :
              IF col \in NUMERIC_COLUMNS
              THEN IF ParsableIn(col) = {} THEN result[i][col] = Fin(0)
                   ELSE /\ \E x \in ParsableIn(col) : Le(x, result[i][col])
                        /\ \E x \in ParsableIn(col) : Le(result[i][col], x)
              ELSE IF col \in STRING_COLUMNS
              THEN IF NonEmptyIn(col) = {} THEN result[i][col] = ""
                   ELSE result[i][col] \in NonEmptyIn(col)
              ELSE result[i][col] = ""

\* C20: augment with method 'duplicate' appends only rows that are
\* value-equal to some record of the input dataset and are fresh copies:
\* none is the same object as an input record or as another appended row.
C20_DuplicateFreshCopies ==
  (op = "augment_data" /\ args.method = "duplicate" /\ data # <<>>) =>
    /\ err = ""
    /\ \A i \in Appended :
         /\ \E j \in 1..Len(data) : SameValues(result[i], data[j])
         /\ result[i].id \notin Ids(data)
         /\ \A m \in Appended : m # i => result[m].id # result[i].id

C20_Witness ==
  /\ op = "augment_data"
  /\ args.method = "duplicate"
  /\ err = ""
  /\ Cardinality(Appended) = 2
  /\ \E i \in Appended : \E m \in Appended :
       i # m /\ SameValues(result[i], result[m]) /\ SameValues(result[i], data[1])
  /\ \E j \in 1..Len(data) : ~SameValues(data[j], data[1])

----------------------------------------------------------------------------
(* Random subset *)

\* random.sample(population, k): ValueError for a negative k (a k above the
\* population is refused by the caller before), else any k records of the
\* population at pairwise different positions, in any order.
random_sample(population, k) ==
  IF k < 0 \/ k > Len(population) THEN {Raise("ValueError")}
  ELSE {Ok([i \in 1..k |-> population[pick[i]]]) :
          pick \in {f \in [1..k -> 1..Len(population)] :
                      \A i \in 1..k : \A j \in 1..k : f[i] = f[j] => i = j}}

\* k > len(data)
_k_exceeds(k, n) == k > n

\* The outcomes of get_random_subset, one for each way the draw can fall.
get_random_subset(rows, k) ==
  IF rows = <<>> THEN {Raise("FileNotLoadedException")}
  ELSE IF _k_exceeds(k, Len(rows)) THEN {Raise("PenguinDataException")}
  ELSE random_sample(rows, k)

SampleRows ==
  {[species |-> "Adelie", body_mass_g |-> "3750"],
   [species |-> "Gentoo", body_mass_g |-> "3200"],
   [species |-> "", body_mass_g |-> "NA"]}

SampleSizes == (-1)..(MaxLen + 1)

GetRandomSubset ==
  \E k \in SampleSizes :
    \E out \in get_random_subset(data, k) :
      Completed("get_random_subset", [NoArgs EXCEPT !.k = k], out)

InitSample == data \in DatasetsOver(SampleRows, MaxLen) /\ Idle

NextSample ==
  \/ GetRandomSubset
  \/ Prompt

SpecSample == InitSample /\ [][NextSample]_vars

\* C21: sample fails with FileNotLoaded on an empty dataset and with the
\* generic data-exception when k exceeds the dataset size; otherwise it
\* returns exactly k records of the dataset that are pairwise distinct by
\* identity, whatever the random source chooses.
C21_SampleDistinct ==
  op = "get_random_subset" =>
    IF data = <<>> THEN err = "FileNotLoadedException"
    ELSE IF args.k > Len(data) THEN err = "PenguinDataException"
    ELSE /\ err = ""
         /\ Len(result) = args.k
         /\ \A i \in 1..Len(result) : result[i] \in {data[j] : j \in 1..Len(data)}
         /\ \A i \in 1..Len(result) : \A j \in 1..Len(result) :
              result[i].id = result[j].id => i = j

----------------------------------------------------------------------------
(* Properties of unique_values *)

\* The rows whose cell under the counted attribute is val.
RowsHolding(val) == {i \in 1..Len(data) : GetOrEmpty(data[i], args.key) = val}

RECURSIVE SumOver(_, _)
SumOver(counts, keys) ==
  IF keys = {} THEN 0
  ELSE LET key == CHOOSE x \in keys : TRUE IN counts[key] + SumOver(counts, keys \ {key})

\* C22: unique_counts on a nonempty dataset with an attribute of the first
\* record returns a mapping whose keys are exactly the distinct non-empty
\* cells of the column, each with the number of rows holding it; the empty
\* string is never a key and the counts sum to the number of rows with a
\* non-empty cell.
C22_UniqueCounts ==
  (op = "unique_values" /\ data # <<>> /\ args.key \in Columns(data[1])) =>
    /\ err = ""
    /\ DOMAIN result = {GetOrEmpty(data[i], args.key) : i \in 1..Len(data)} \ {""}
    /\ \A val \in DOMAIN result : result[val] = Cardinality(RowsHolding(val))
    /\ "" \notin DOMAIN result
    /\ SumOver(result, DOMAIN result) = Len(data) - Cardinality(RowsHolding(""))

C22_Witness ==
  /\ op = "unique_values"
  /\ err = ""
  /\ Cardinality(DOMAIN result) >= 2
  /\ \E val \in DOMAIN result : result[val] >= 2
  /\ RowsHolding("") # {}

----------------------------------------------------------------------------
(* All core operations on one loaded dataset *)

InitCore == data \in DatasetsOver(SampleRows, MaxLen) /\ Idle

NextCore ==
  \/ FilterData
  \/ DescribeAttribute
  \/ UniqueValues
  \/ BubbleSort
  \/ InsertionSort
  \/ SelectionSort
  \/ MergeSort
  \/ QuickSort
  \/ AugmentData
  \/ GetRandomSubset
  \/ GenerateResearchGroups
  \/ SplitPenguins
  \/ Prompt

SpecCore == InitCore /\ [][NextCore]_vars

\* C23: no core operation mutates its input: after the call, returned or
\* failed, the input dataset holds the same records in the same order, each
\* with the keys and values it had before the call.
C23_InputUnchanged == [][data' = data]_vars

C23_Witness ==
  /\ op \in {"bubble_sort", "insertion_sort", "selection_sort"}
  /\ Len(data) >= 3
  /\ result # data
  /\ result[1] = data[Len(data)]

C23_WitnessAugment ==
  /\ op = "augment_data"
  /\ err = ""
  /\ Len(result) > Len(data)

C23_WitnessFailed ==
  /\ op = "augment_data"
  /\ err = "ValueError"
  /\ data # <<>>

Transforms == SortOps \cup {"filter_data", "augment_data", "get_random_subset"}

\* C24: every transform (filter, the five sorts, augment, sample) returns a
\* new Dataset: the returned sequence is never the same sequence object as
\* the input dataset, for inputs of every length including 0 and 1.
C24_NewSequence == (op \in Transforms /\ err = "") => ~same

Taxonomy ==
  {"FileNotLoadedException", "InvalidColumnException", "NonNumericAttributeException",
   "PenguinDataException"}

\* C27: every failure of a core operation is one of the error kinds of the
\* taxonomy: for every dataset and every argument value a core operation
\* either returns a result or fails with FileNotLoaded, InvalidColumn,
\* NonNumericAttribute or the generic data-exception.
C27_FailuresInTaxonomy == op # "idle" => err \in Taxonomy \cup {""}

----------------------------------------------------------------------------
(* CSV files: a text is a sequence of characters, a cell likewise *)

MaxCsvLen == 2

QUOTE == "\""
COMMA == ","
CR == "\r"
LF == "\n"

\* The end-of-line mark that the reader processes after each line.
EOL == "<EOL>"

\* QUOTE_MINIMAL: a field is quoted when it holds the delimiter, the quote
\* character or a line break, or when it is the empty only field of its row.
NeedsQuote(field, alone) ==
  \/ \E i \in 1..Len(field) : field[i] \in {COMMA, QUOTE, CR, LF}
  \/ alone /\ field = <<>>

\* doublequote: each quote character inside a quoted field is written twice.
RECURSIVE Doubled(_)
Doubled(field) ==
  IF field = <<>> THEN <<>>
  ELSE (IF Head(field) = QUOTE THEN <<QUOTE, QUOTE>> ELSE <<Head(field)>>) \o Doubled(Tail(field))

WriteField(field, alone) ==
  IF NeedsQuote(field, alone) THEN <<QUOTE>> \o Doubled(field) \o <<QUOTE>> ELSE field

RECURSIVE JoinFields(_, _)
JoinFields(fields, i) ==
  IF i > Len(fields) THEN <<>>
  ELSE (IF i > 1 THEN <<COMMA>> ELSE <<>>)
       \o WriteField(fields[i], Len(fields) = 1) \o JoinFields(fields, i + 1)

\* writer.writerow(fields): the joined fields and the line terminator.
writerow(fields) == JoinFields(fields, 1) \o <<CR, LF>>

\* The keys a record can have, in their insertion order.
KeyOrder == <<"col1", "col2">>

\* fieldnames = data[0].keys()
FieldNames(rows) == SelectSeq(KeyOrder, LAMBDA name : name \in DOMAIN rows[1])

RECURSIVE writerows(_, _, _)
writerows(rows, i, names) ==
  IF i > Len(rows) THEN <<>>
  ELSE writerow([m \in 1..Len(names) |-> rows[i][names[m]]]) \o writerows(rows, i + 1, names)

\* The data directory after save_csv(filename, rows): nothing is written for
\* an empty dataset.
save_csv(fs, filename, rows) ==
  IF rows = <<>> THEN fs
  ELSE LET names == FieldNames(rows)
           text == writerow([m \in 1..Len(names) |-> <<names[m]>>]) \o writerows(rows, 1, names)
       IN (filename :> text) @@ fs

\* open(filepath, 'r'): CR LF and a lone CR are read as LF.
RECURSIVE _universal_newlines(_)
_universal_newlines(text) ==
  IF text = <<>> THEN <<>>
  ELSE IF Head(text) = CR
  THEN <<LF>> \o _universal_newlines(IF Len(text) >= 2 /\ text[2] = LF
                                      THEN Tail(Tail(text)) ELSE Tail(text))
  ELSE <<Head(text)>> \o _universal_newlines(Tail(text))

save_field(st) == [st EXCEPT !.row = Append(st.row, st.field), !.field = <<>>]

add_char(st, c) == [st EXCEPT !.field = Append(st.field, c)]

EndOfField(st, c) ==
  [save_field(st) EXCEPT !.state = IF c = EOL THEN "START_RECORD" ELSE "EAT_CRNL"]

\* case START_FIELD of parse_process_char
StartField(st, c) ==
  IF c \in {LF, CR, EOL} THEN EndOfField(st, c)
  ELSE IF c = QUOTE THEN [st EXCEPT !.state = "IN_QUOTED_FIELD"]
  ELSE IF c = COMMA THEN [save_field(st) EXCEPT !.state = "START_FIELD"]
  ELSE [add_char(st, c) EXCEPT !.state = "IN_FIELD"]

\* parse_process_char of the csv reader, excel dialect.
parse_process_char(st, c) ==
  CASE st.state = "START_RECORD" ->
         IF c = EOL THEN st
         ELSE IF c \in {LF, CR} THEN [st EXCEPT !.state = "EAT_CRNL"]
         ELSE StartField(st, c)
    [] st.state = "START_FIELD" -> StartField(st, c)
    [] st.state = "IN_FIELD" ->
         IF c \in {LF, CR, EOL} THEN EndOfField(st, c)
         ELSE IF c = COMMA THEN [save_field(st) EXCEPT !.state = "START_FIELD"]
         ELSE add_char(st, c)
    [] st.state = "IN_QUOTED_FIELD" ->
         IF c = EOL THEN st
         ELSE IF c = QUOTE THEN [st EXCEPT !.state = "QUOTE_IN_QUOTED_FIELD"]
         ELSE add_char(st, c)
    [] st.state = "QUOTE_IN_QUOTED_FIELD" ->
         IF c = QUOTE THEN [add_char(st, c) EXCEPT !.state = "IN_QUOTED_FIELD"]
         ELSE IF c = COMMA THEN [save_field(st) EXCEPT !.state = "START_FIELD"]
         ELSE IF c \in {LF, CR, EOL} THEN EndOfField(st, c)
         ELSE [add_char(st, c) EXCEPT !.state = "IN_FIELD"]
    [] st.state = "EAT_CRNL" ->
         IF c \in {LF, CR} THEN st
         ELSE IF c = EOL THEN [st EXCEPT !.state = "START_RECORD"]
         ELSE [st EXCEPT !.state = "ERROR"]
    [] st.state = "ERROR" -> st

\* A record is handed out when a line ends in START_RECORD.
EndOfLine(st) ==
  LET after == parse_process_char(st, EOL) IN
  IF after.state = "START_RECORD"
  THEN [after EXCEPT !.rows = Append(after.rows, after.row), !.row = <<>>]
  ELSE after

\* csv.reader over the lines of text: the rows, each a sequence of fields.
RECURSIVE ReadFrom(_, _, _)
ReadFrom(text, i, st) ==
  IF i > Len(text)
  THEN IF st.field # <<>> \/ st.state = "IN_QUOTED_FIELD"
       THEN Append(st.rows, Append(st.row, st.field))
       ELSE st.rows
  ELSE LET after == parse_process_char(st, text[i]) IN
       ReadFrom(text, i + 1,
                IF text[i] = LF \/ i = Len(text) THEN EndOfLine(after) ELSE after)

reader(text) ==
  ReadFrom(text, 1, [state |-> "START_RECORD", field |-> <<>>, row |-> <<>>, rows |-> <<>>])

\* The key that a header cell names.
FieldKey(cell) == IF Len(cell) = 1 THEN cell[1] ELSE "<text>"

\* dict(zip(fieldnames, row)), with None (here the one-character text
\* <<None>>) for a missing cell and the surplus cells under the key None.
DictRow(fieldnames, row) ==
  LET keys == {FieldKey(fieldnames[m]) : m \in 1..Len(fieldnames)}
      zipped == [key \in keys |->
                   LET m == CHOOSE n \in 1..Len(fieldnames) : FieldKey(fieldnames[n]) = key
                   IN IF m <= Len(row) THEN row[m] ELSE <<None>>]
  IN IF Len(row) > Len(fieldnames)
     THEN zipped @@ (None :> SubSeq(row, Len(fieldnames) + 1, Len(row)))
     ELSE zipped

\* csv.DictReader: the first row names the fields, empty rows are skipped.
RECURSIVE DictRows(_, _)
DictRows(rows, i) ==
  IF i > Len(rows) THEN <<>>
  ELSE (IF rows[i] = <<>> THEN <<>> ELSE <<DictRow(rows[1], rows[i])>>)
       \o DictRows(rows, i + 1)

load_csv(fs, filename) ==
  IF filename \notin DOMAIN fs THEN Raise("FileNotFoundError")
  ELSE Ok(DictRows(reader(_universal_newlines(fs[filename])), 2))

FileName == "test_file.csv"

CsvCells ==
  {<<>>, <<"a">>, <<COMMA>>, <<QUOTE>>, <<CR>>, <<LF>>, <<CR, LF>>, <<LF, CR>>,
   <<QUOTE, QUOTE>>, <<"a", LF>>, <<"a", COMMA>>, <<QUOTE, "a">>}

PlainCells == {<<>>, <<"a">>, <<COMMA>>, <<QUOTE>>, <<LF>>, <<"a", "a">>}

\* Records of one key, of two keys and of no key at all.
OneKeyRows == {("col1" :> cell) : cell \in CsvCells}
TwoKeyRows == {("col1" :> c1) @@ ("col2" :> c2) : c1 \in PlainCells, c2 \in PlainCells}
NoKeyRows == {<<>>}

\* The datasets of at most n records over a set of rows.
SequencesOver(pool, n) == UNION {[1..m -> pool] : m \in 0..n}

SaveCsv ==
  /\ op = "idle"
  /\ op' = "save_csv"
  /\ args' = [NoArgs EXCEPT !.value = FileName]
  /\ result' = <<>>
  /\ err' = ""
  /\ same' = FALSE
  /\ files' = save_csv(files, FileName, data)
  /\ UNCHANGED <<data, frames>>

LoadCsv ==
  /\ op \in {"idle", "save_csv"}
  /\ op' = "load_csv"
  /\ args' = [NoArgs EXCEPT !.value = FileName]
  /\ result' = load_csv(files, FileName).result
  /\ err' = load_csv(files, FileName).err
  /\ same' = FALSE
  /\ UNCHANGED <<data, files, frames>>

InitCsv ==
  /\ data \in SequencesOver(OneKeyRows, MaxCsvLen)
              \cup SequencesOver(TwoKeyRows, MaxCsvLen)
              \cup SequencesOver(NoKeyRows, MaxCsvLen)
  /\ Idle

NextCsv ==
  \/ SaveCsv
  \/ LoadCsv
  \/ Prompt

SpecCsv == InitCsv /\ [][NextCsv]_vars

\* C25: save/load round trip: for any dataset of text-valued records that
\* share one key set, after save_csv(name, data) the named file exists, and
\* load_csv(name) right after it returns a dataset equal by value to data.
C25_RoundTrip ==
  [][/\ op' = "save_csv" => FileName \in DOMAIN files'
     /\ (op = "save_csv" /\ op' = "load_csv") => (err' = "" /\ result' = data)]_vars

----------------------------------------------------------------------------
(* The sorts step by step: frames is the stack of pending calls and loops.
   A frame holds the list of the call or the working list of the loop, the
   0-based loop indices i and j of the code, in x the swapped flag of bubble
   sort (0 or 1) or the extreme_idx of selection sort, and in other the
   right list of _merge or the key_item of insertion sort.  The frames of quick_sort and merge_sort are the calls
   still to be made; what they return is computed by quick_sort and
   merge_sort above. *)

Frame(fn, list) ==
  [fn |-> fn, list |-> list, other |-> <<>>, i |-> 0, j |-> 0, x |-> 0, pc |-> "for"]

TermRows ==
  {[species |-> "Adelie", body_mass_g |-> "3750"],
   [species |-> "Gentoo", body_mass_g |-> "3200"],
   [species |-> "", body_mass_g |-> "nan"]}

TermKeys == {"body_mass_g", "species"}

\* The command starts the chosen algorithm on the loaded dataset.
StartSort ==
  \E name \in SortOps, key \in TermKeys, reverse \in BOOLEAN :
    /\ op = "idle"
    /\ op' = "running"
    /\ args' = [NoArgs EXCEPT !.key = key, !.reverse = reverse, !.method = name]
    /\ frames' = <<[Frame(name, data) EXCEPT !.i = IF name = "insertion_sort" THEN 1 ELSE 0]>>
    /\ UNCHANGED <<data, result, err, same, files>>

\* The stack after a step; the call has returned res when the stack is empty.
Advance(stack, res) ==
  /\ frames' = stack
  /\ IF stack = <<>>
     THEN op' = args.method /\ result' = res
     ELSE UNCHANGED <<op, result>>
  /\ UNCHANGED <<data, args, err, same, files>>

Top == Head(frames)

Running(fn) == op = "running" /\ frames # <<>> /\ Top.fn = fn

\* A partition that sends the records equal to the pivot to the right.
_goes_right_or_equal(val, pivot_val) == Ge(val, pivot_val)

\* elif val > pivot_val
_goes_right(val, pivot_val) == Gt(val, pivot_val)

\* One call of quick_sort: return for length <= 1, else partition around
\* the middle element and call on the two outer buckets.
QuickSortCall ==
  /\ Running("quick_sort")
  /\ LET rows == Top.list
         pivot_val == _get_comparable_value(rows[(Len(rows) \div 2) + 1], args.key)
         IsLeft(item) == Lt(_get_comparable_value(item, args.key), pivot_val)
         IsRight(item) == ~IsLeft(item) /\ _goes_right(_get_comparable_value(item, args.key), pivot_val)
         left == Frame("quick_sort", SelectSeq(rows, IsLeft))
         right == Frame("quick_sort", SelectSeq(rows, IsRight))
     IN Advance(IF Len(rows) <= 1 THEN Tail(frames)
                ELSE (IF args.reverse THEN <<right, left>> ELSE <<left, right>>) \o Tail(frames),
                quick_sort(data, args.key, args.reverse))

\* One call of merge_sort: return for length <= 1, else call on the two
\* halves and merge what they return.
MergeSortCall ==
  /\ Running("merge_sort")
  /\ LET rows == Top.list
         mid == Len(rows) \div 2
         left == SubSeq(rows, 1, mid)
         right == SubSeq(rows, mid + 1, Len(rows))
         merging == [Frame("_merge", merge_sort(left, args.key, args.reverse))
                       EXCEPT !.other = merge_sort(right, args.key, args.reverse)]
     IN Advance(IF Len(rows) <= 1 THEN Tail(frames)
                ELSE <<Frame("merge_sort", left), Frame("merge_sort", right), merging>>
                     \o Tail(frames),
                merge_sort(data, args.key, args.reverse))

\* One turn of the while loop of _merge.
MergeStep ==
  /\ Running("_merge")
  /\ LET f == Top IN
     Advance(IF f.i < Len(f.list) /\ f.j < Len(f.other)
             THEN IF _merge_left_first(_get_comparable_value(f.list[f.i + 1], args.key),
                                       _get_comparable_value(f.other[f.j + 1], args.key),
                                       args.reverse)
                  THEN <<[f EXCEPT !.i = f.i + 1]>> \o Tail(frames)
                  ELSE <<[f EXCEPT !.j = f.j + 1]>> \o Tail(frames)
             ELSE Tail(frames),
             merge_sort(data, args.key, args.reverse))

\* One turn of the loops of bubble_sort.
BubbleStep ==
  /\ Running("bubble_sort")
  /\ LET f == Top
         n == Len(f.list)
         val1 == _get_comparable_value(f.list[f.j + 1], args.key)
         val2 == _get_comparable_value(f.list[f.j + 2], args.key)
         doSwap == IF args.reverse THEN Lt(val1, val2) ELSE Gt(val1, val2)
     IN Advance(IF f.pc = "for"
                THEN IF f.i >= n THEN <<>>
                     ELSE <<[f EXCEPT !.x = 0, !.j = 0, !.pc = "inner"]>>
                ELSE IF f.j < n - f.i - 1
                THEN IF doSwap
                     THEN <<[f EXCEPT !.list = Swap(f.list, f.j + 1, f.j + 2), !.x = 1,
                                      !.j = f.j + 1]>>
                     ELSE <<[f EXCEPT !.j = f.j + 1]>>
                ELSE IF f.x = 0 THEN <<>>
                ELSE <<[f EXCEPT !.i = f.i + 1, !.pc = "for"]>>,
                f.list)

\* One turn of the loops of insertion_sort.
InsertionStep ==
  /\ Running("insertion_sort")
  /\ LET f == Top
         n == Len(f.list)
     IN Advance(IF f.pc = "for"
                THEN IF f.i >= n THEN <<>>
                     ELSE <<[f EXCEPT !.other = <<f.list[f.i + 1]>>, !.j = f.i - 1, !.pc = "while"]>>
                ELSE IF f.j >= 0 /\ _insertion_shift(_get_comparable_value(f.list[f.j + 1], args.key),
                                                     _get_comparable_value(f.other[1], args.key),
                                                     args.reverse)
                THEN <<[f EXCEPT !.list = [f.list EXCEPT ![f.j + 2] = f.list[f.j + 1]],
                                 !.j = f.j - 1]>>
                ELSE <<[f EXCEPT !.list = [f.list EXCEPT ![f.j + 2] = f.other[1]],
                                 !.i = f.i + 1, !.pc = "for"]>>,
                f.list)

\* One turn of the loops of selection_sort.
SelectionStep ==
  /\ Running("selection_sort")
  /\ LET f == Top
         n == Len(f.list)
     IN Advance(IF f.pc = "for"
                THEN IF f.i >= n THEN <<>>
                     ELSE <<[f EXCEPT !.x = f.i, !.j = f.i + 1, !.pc = "inner"]>>
                ELSE IF f.j < n
                THEN IF _selection_better(_get_comparable_value(f.list[f.j + 1], args.key),
                                          _get_comparable_value(f.list[f.x + 1], args.key),
                                          args.reverse)
                     THEN <<[f EXCEPT !.x = f.j, !.j = f.j + 1]>>
                     ELSE <<[f EXCEPT !.j = f.j + 1]>>
                ELSE <<[f EXCEPT !.list = Swap(f.list, f.i + 1, f.x + 1),
                                 !.i = f.i + 1, !.pc = "for"]>>,
                f.list)

InitSteps == data \in DatasetsOver(TermRows, MaxLen) /\ Idle

NextSteps ==
  \/ StartSort
  \/ QuickSortCall
  \/ MergeSortCall
  \/ MergeStep
  \/ BubbleStep
  \/ InsertionStep
  \/ SelectionStep

SpecSteps == InitSteps /\ [][NextSteps]_vars

\* The code is single-threaded and synchronous: a step that can be taken is
\* taken.
SpecStepsFair == SpecSteps /\ WF_vars(NextSteps)

\* The frames that a step put in the place of the top frame.
Pushed == SubSeq(frames', 1, Len(frames') - Len(frames) + 1)

\* What a step of a running sort does to the top frame: a call of quick_sort
\* or merge_sort makes calls on strictly shorter lists only (non-empty ones
\* for merge_sort), and a turn of a loop moves its index on by one.
StepAdvances ==
  (op = "running" /\ frames # <<>>) =>
    LET f == Top
        g == Head(frames')
    IN CASE f.fn = "quick_sort" ->
              \A m \in 1..Len(Pushed) : Len(Pushed[m].list) < Len(f.list)
         [] f.fn = "merge_sort" ->
              \A m \in 1..Len(Pushed) :
                Pushed[m].fn = "merge_sort" =>
                  Len(Pushed[m].list) >= 1 /\ Len(Pushed[m].list) < Len(f.list)
         [] f.fn = "_merge" ->
              frames' = Tail(frames) \/ g.i + g.j = f.i + f.j + 1
         [] f.fn \in {"bubble_sort", "selection_sort"} ->
              \/ frames' = <<>>
              \/ g.i = f.i + 1
              \/ g.i = f.i /\ f.pc = "for" /\ g.pc = "inner"
              \/ g.i = f.i /\ f.pc = "inner" /\ g.pc = "inner" /\ g.j = f.j + 1
         [] f.fn = "insertion_sort" ->
              \/ frames' = <<>>
              \/ g.i = f.i + 1
              \/ g.i = f.i /\ f.pc = "for" /\ g.pc = "while"
              \/ g.i = f.i /\ f.pc = "while" /\ g.pc = "while" /\ g.j = f.j - 1

\* C26: each of the five sort algorithms terminates on every dataset, key
\* column and direction: every recursive call of quick sort gets a strictly
\* shorter list, every recursive call of merge sort on a list of length >= 2
\* gets a non-empty strictly shorter half, the loops of bubble, insertion
\* and selection sort move their indices on at every turn, and a sort that
\* has started returns.
C26_Terminates ==
  /\ [][StepAdvances]_vars
  /\ (op = "running") ~> (op \in SortOps)

C26_Witness ==
  /\ op = "running"
  /\ Len(frames) >= 2
  /\ Top.fn = "quick_sort"
  /\ Len(Top.list) >= 2
  /\ Len(Top.list) < Len(data)

C26_WitnessReturned ==
  /\ op \in SortOps
  /\ frames = <<>>
  /\ Len(data) >= 3
  /\ result # data

====
